---------------------------- MODULE Spec2Model ----------------------------
(***************************************************************************)
(* Model of the monophonic synthesiser voice "replicant":                  *)
(*   src/src/envelope.rs  the ADSR envelope (ADSREnvelope, ADSRParams)     *)
(*   src/src/lib.rs       the voice (MonoReplicant) and the pitch mapping  *)
(*                                                                         *)
(* Numbers.  The program computes in f64 (parameters are f32 cells widened *)
(* to f64).  Here every such number is an exact rational <<n, d>> in       *)
(* lowest terms with d > 0, so + - * / % and the comparisons are the real  *)
(* operations the floating-point ones approximate; rounding error is not   *)
(* modelled.  Integer arithmetic of the program (the i8 subtraction of the *)
(* pitch mapping) keeps its width.                                         *)
(***************************************************************************)
EXTENDS Integers, Sequences, FiniteSets, TLC

VARIABLES
    current_phase,    \* ADSREnvelope.current_phase
    phase_elapsed,    \* ADSREnvelope.phase_elapsed
    note_on_volume,   \* ADSREnvelope.note_on_volume
    note_off_volume,  \* ADSREnvelope.note_off_volume
    attack,           \* ADSRParams.attack   (a shared cell)
    decay,            \* ADSRParams.decay    (a shared cell)
    sustain,          \* ADSRParams.sustain  (a shared cell)
    release,          \* ADSRParams.release  (a shared cell)
    sample_rate,      \* MonoReplicant.sample_rate
    time,             \* MonoReplicant.time
    note,             \* MonoReplicant.note
    out_alpha,        \* the amplitude read for the last sample written
    out_pitch,        \* the pitch computation of the last sample written
    t_on,             \* history: value of time at the last note-on, or Never
    t_off,            \* history: value of time at the last note-off after it, or Never
    last_event        \* history: the last MIDI event delivered, or NotTraced

vars == <<current_phase, phase_elapsed, note_on_volume, note_off_volume,
          attack, decay, sustain, release, sample_rate, time, note,
          out_alpha, out_pitch, t_on, t_off, last_event>>

envelope_vars == <<current_phase, phase_elapsed, note_on_volume, note_off_volume>>
params_vars == <<attack, decay, sustain, release>>
history_vars == <<t_on, t_off, last_event>>
voice_vars == <<envelope_vars, params_vars, sample_rate, time, note, out_alpha,
                out_pitch, t_on, t_off>>

---------------------------------------------------------------------------
(* Exact rational arithmetic standing for f64.                             *)

\* The arithmetic is written as functions: a function application evaluates
\* its arguments once, which keeps the evaluation of nested expressions linear.

gcd[a \in Nat, b \in Nat] == IF b = 0 THEN a ELSE gcd[b, a % b]

Abs(n) == IF n < 0 THEN -n ELSE n

\* n and d divided by g, the sign carried by the numerator.
reduce[n \in Int, d \in Int, g \in Nat] ==
    IF d < 0 THEN <<(-n) \div g, (-d) \div g>> ELSE <<n \div g, d \div g>>

norm[n \in Int, d \in Int] == reduce[n, d, gcd[Abs(n), Abs(d)]]

\* The rational n/d (d # 0) in lowest terms with a positive denominator.
R(n, d) == norm[n, d]

Zero == <<0, 1>>
One == <<1, 1>>

Rat == Int \X Int

lcm[a \in Nat, b \in Nat] == (a \div gcd[a, b]) * b

\* x and y brought to the common denominator l: <<numerator of x, of y, l>>.
common[x \in Rat, y \in Rat, l \in Nat] ==
    <<x[1] * (l \div x[2]), y[1] * (l \div y[2]), l>>

aligned[x \in Rat, y \in Rat] == common[x, y, lcm[x[2], y[2]]]

sum[c \in Int \X Int \X Nat] == norm[c[1] + c[2], c[3]]

RAdd(x, y) == sum[aligned[x, y]]

RNeg(x) == <<-x[1], x[2]>>

RSub(x, y) == RAdd(x, RNeg(y))

product[a \in Rat, b \in Rat] == <<a[1] * b[1], a[2] * b[2]>>

times[x \in Rat, y \in Rat] == product[norm[x[1], y[2]], norm[y[1], x[2]]]

RMul(x, y) == times[x, y]

inverse[y \in Rat] == norm[y[2], y[1]]

\* x / y for y # 0
RDiv(x, y) == times[x, inverse[y]]

less[c \in Int \X Int \X Nat] == c[1] < c[2]

RLt(x, y) == less[aligned[x, y]]

RLe(x, y) == ~RLt(y, x)

\* f64::min and f64::max
smaller[x \in Rat, y \in Rat] == IF RLt(y, x) THEN y ELSE x
larger[x \in Rat, y \in Rat] == IF RLt(x, y) THEN y ELSE x
RMin(x, y) == smaller[x, y]
RMax(x, y) == larger[x, y]

\* Truncation toward zero of the rational x, as an integer.
trunc[x \in Rat] == IF x[1] >= 0 THEN x[1] \div x[2] ELSE -((-x[1]) \div x[2])

remainder[x \in Rat, y \in Rat] == RSub(x, RMul(y, <<trunc[RDiv(x, y)], 1>>))

\* The f64 remainder x % y (y # 0): x - y * trunc(x / y), sign of the dividend.
RRem(x, y) == remainder[x, y]

---------------------------------------------------------------------------
(* envelope.rs: the interpolation helpers.                                 *)

\* clamp without its lower bound.
clamp_no_floor(a, x, b) == RMin(x, b)

clamp(a, x, b) == RMax(a, RMin(x, b))

lerp(a, b, t) == RAdd(a, RMul(RSub(b, a), t))

\* lerp_down moving away from a instead of towards it.
lerp_down_rising(b, a, t) == RAdd(b, RMul(RSub(b, a), t))

lerp_down(b, a, t) == RSub(b, RMul(RSub(b, a), t))

\* alpha_of without the clamp of the Release arm.
alpha_of_unclamped(ph, pe, von, voff, a, d, s, r) ==
    CASE ph = "Attack"  -> RAdd(von, RMul(RSub(One, von), RDiv(pe, a)))
      [] ph = "Decay"   -> RSub(One, RMul(RSub(One, s), RDiv(pe, d)))
      [] ph = "Sustain" -> s
      [] ph = "Release" -> RSub(voff, RMul(voff, RDiv(pe, r)))

\* ADSREnvelope::alpha on explicit arguments: the amplitude of an envelope in
\* phase ph, pe into the phase, with captured volumes von and voff, under the
\* parameter values a, d, s, r.
alpha_of(ph, pe, von, voff, a, d, s, r) ==
    CASE ph = "Attack"  -> lerp(von, One, RDiv(pe, a))
      [] ph = "Decay"   -> lerp_down(One, s, RDiv(pe, d))
      [] ph = "Sustain" -> s
      [] ph = "Release" -> clamp(Zero, lerp_down(voff, Zero, RDiv(pe, r)), One)

\* ADSREnvelope::alpha: the current amplitude.
alpha ==
    alpha_of(current_phase, phase_elapsed, note_on_volume, note_off_volume,
             attack, decay, sustain, release)

---------------------------------------------------------------------------
(* envelope.rs: the envelope's operations.                                 *)

\* envelope_new starting at the beginning of the release phase.
envelope_new_at_start(a, d, s, r) ==
    /\ current_phase = "Release"
    /\ phase_elapsed = Zero
    /\ note_on_volume = Zero
    /\ note_off_volume = s
    /\ attack = a
    /\ decay = d
    /\ sustain = s
    /\ release = r

\* ADSREnvelope::new, for parameter values a, d, s, r: the envelope starts at
\* the end of the release phase.
envelope_new(a, d, s, r) ==
    /\ current_phase = "Release"
    /\ phase_elapsed = r
    /\ note_on_volume = Zero
    /\ note_off_volume = s
    /\ attack = a
    /\ decay = d
    /\ sustain = s
    /\ release = r

\* ADSREnvelope::note_on
envelope_note_on(volume) ==
    /\ note_on_volume' = volume
    /\ current_phase' = "Attack"
    /\ phase_elapsed' = Zero
    /\ UNCHANGED note_off_volume

\* envelope_note_off capturing the sustain level instead of the live amplitude.
envelope_note_off_sustain ==
    /\ note_off_volume' = sustain
    /\ current_phase' = "Release"
    /\ phase_elapsed' = Zero
    /\ UNCHANGED note_on_volume

\* ADSREnvelope::note_off
envelope_note_off ==
    /\ note_off_volume' = alpha
    /\ current_phase' = "Release"
    /\ phase_elapsed' = Zero
    /\ UNCHANGED note_on_volume

\* inc_timer_of with >= in place of > in both transition checks.
inc_timer_of_ge(ph, pe, dt, a, d) ==
    LET pe1 == RAdd(pe, dt)
        toDecay == ph = "Attack" /\ RLe(a, pe1)
        ph2 == IF toDecay THEN "Decay" ELSE ph
        pe2 == IF toDecay THEN RRem(pe1, a) ELSE pe1
        toSustain == ph2 = "Decay" /\ RLe(d, pe2)
        ph3 == IF toSustain THEN "Sustain" ELSE ph2
        pe3 == IF toSustain THEN RRem(pe2, d) ELSE pe2
    IN  [phase |-> ph3, elapsed |-> pe3]

\* inc_timer_of with the Decay check as the else-branch of the Attack check.
inc_timer_of_else_if(ph, pe, dt, a, d) ==
    LET pe1 == RAdd(pe, dt)
    IN  IF ph = "Attack"
        THEN IF RLt(a, pe1)
             THEN [phase |-> "Decay", elapsed |-> RRem(pe1, a)]
             ELSE [phase |-> ph, elapsed |-> pe1]
        ELSE IF ph = "Decay" /\ RLt(d, pe1)
             THEN [phase |-> "Sustain", elapsed |-> RRem(pe1, d)]
             ELSE [phase |-> ph, elapsed |-> pe1]

\* inc_timer_of without the Decay -> Sustain transition.
inc_timer_of_no_sustain(ph, pe, dt, a, d) ==
    LET pe1 == RAdd(pe, dt)
        toDecay == ph = "Attack" /\ RLt(a, pe1)
    IN  [phase |-> IF toDecay THEN "Decay" ELSE ph,
         elapsed |-> IF toDecay THEN RRem(pe1, a) ELSE pe1]

\* inc_timer_of with the Decay check made against phase_elapsed as it was
\* before the Attack -> Decay carry-over.
inc_timer_of_unreduced_check(ph, pe, dt, a, d) ==
    LET pe1 == RAdd(pe, dt)
        toDecay == ph = "Attack" /\ RLt(a, pe1)
        ph2 == IF toDecay THEN "Decay" ELSE ph
        pe2 == IF toDecay THEN RRem(pe1, a) ELSE pe1
        toSustain == ph2 = "Decay" /\ RLt(d, pe1)
        ph3 == IF toSustain THEN "Sustain" ELSE ph2
        pe3 == IF toSustain THEN RRem(pe2, d) ELSE pe2
    IN  [phase |-> ph3, elapsed |-> pe3]

\* inc_timer_of with the Decay check missing its phase test.
inc_timer_of_any_phase(ph, pe, dt, a, d) ==
    LET pe1 == RAdd(pe, dt)
        toDecay == ph = "Attack" /\ RLt(a, pe1)
        ph2 == IF toDecay THEN "Decay" ELSE ph
        pe2 == IF toDecay THEN RRem(pe1, a) ELSE pe1
        toSustain == RLt(d, pe2)
        ph3 == IF toSustain THEN "Sustain" ELSE ph2
        pe3 == IF toSustain THEN RRem(pe2, d) ELSE pe2
    IN  [phase |-> ph3, elapsed |-> pe3]

\* inc_timer_of with phase_elapsed reset to zero on a transition instead of
\* carried over.
inc_timer_of_reset(ph, pe, dt, a, d) ==
    LET pe1 == RAdd(pe, dt)
        toDecay == ph = "Attack" /\ RLt(a, pe1)
        ph2 == IF toDecay THEN "Decay" ELSE ph
        pe2 == IF toDecay THEN Zero ELSE pe1
        toSustain == ph2 = "Decay" /\ RLt(d, pe2)
        ph3 == IF toSustain THEN "Sustain" ELSE ph2
        pe3 == IF toSustain THEN Zero ELSE pe2
    IN  [phase |-> ph3, elapsed |-> pe3]

\* ADSREnvelope::inc_timer on explicit arguments: the phase and phase_elapsed
\* after advancing an envelope in phase ph, pe into it, by dt, under the attack
\* and decay durations a and d.
inc_timer_of(ph, pe, dt, a, d) ==
    LET pe1 == RAdd(pe, dt)
        toDecay == ph = "Attack" /\ RLt(a, pe1)
        ph2 == IF toDecay THEN "Decay" ELSE ph
        pe2 == IF toDecay THEN RRem(pe1, a) ELSE pe1
        toSustain == ph2 = "Decay" /\ RLt(d, pe2)
        ph3 == IF toSustain THEN "Sustain" ELSE ph2
        pe3 == IF toSustain THEN RRem(pe2, d) ELSE pe2
    IN  [phase |-> ph3, elapsed |-> pe3]

\* ADSREnvelope::inc_timer
inc_timer(dt) ==
    LET n == inc_timer_of(current_phase, phase_elapsed, dt, attack, decay)
    IN  /\ current_phase' = n.phase
        /\ phase_elapsed' = n.elapsed
        /\ UNCHANGED <<note_on_volume, note_off_volume>>

\* A write of one ADSRParams cell (AtomicFloat) by a thread other than the
\* audio thread.
params_set(cell, value) ==
    /\ attack' = (IF cell = "attack" THEN value ELSE attack)
    /\ decay' = (IF cell = "decay" THEN value ELSE decay)
    /\ sustain' = (IF cell = "sustain" THEN value ELSE sustain)
    /\ release' = (IF cell = "release" THEN value ELSE release)
    /\ UNCHANGED <<envelope_vars, sample_rate, time, note, out_alpha, out_pitch,
                   history_vars>>

---------------------------------------------------------------------------
(* lib.rs: the pitch mapping.                                              *)

A4_PITCH == 69
MIDI_MAX == 127
I8_MIN == -(2^7)
I8_MAX == 2^7 - 1

\* `pitch as i8`: the u8 reinterpreted as a signed byte.
as_i8(pitch) == IF pitch > I8_MAX THEN pitch - 2^8 ELSE pitch

\* An i8 result wrapped into the i8 range.
wrap_i8(n) == ((n - I8_MIN) % 2^8) + I8_MIN

\* midi_pitch_to_freq with the subtraction reversed.
midi_pitch_to_freq_reversed(pitch) ==
    LET diff == A4_PITCH - as_i8(pitch)
    IN  [pitch |-> pitch,
         overflow |-> diff < I8_MIN \/ diff > I8_MAX,
         exponent |-> R(wrap_i8(diff), 12)]

\* midi_pitch_to_freq up to the exponent of 2: the pitch, whether the i8
\* subtraction overflows (a panic in a build with overflow checks, a wrapped
\* value otherwise), and the exponent (pitch as i8 - A4_PITCH) / 12 that exp2
\* is applied to before the multiplication by 440.
midi_pitch_to_freq(pitch) ==
    LET diff == as_i8(pitch) - A4_PITCH
    IN  [pitch |-> pitch,
         overflow |-> diff < I8_MIN \/ diff > I8_MAX,
         exponent |-> R(wrap_i8(diff), 12)]

---------------------------------------------------------------------------
(* lib.rs: the voice.                                                      *)

Never == <<-1, 1>>
NotTraced == <<>>
NoEvent == <<0, 0, 0>>
NoPitch == [pitch |-> -1, overflow |-> FALSE, exponent |-> Zero]

NOTE_OFF == 128
NOTE_ON == 144
DEFAULT_SAMPLE_RATE == 44100

\* MonoReplicant::time_per_sample
time_per_sample == RDiv(One, sample_rate)

\* MonoReplicant::default around an envelope built by envelope_new, before
\* the host's set_sample_rate(rate); traced tells whether the history keeps
\* the MIDI events delivered.
voice_new(rate, traced) ==
    /\ sample_rate = rate
    /\ time = Zero
    /\ note = 0
    /\ out_alpha = Zero
    /\ out_pitch = NoPitch
    /\ t_on = Never
    /\ t_off = Never
    /\ last_event = (IF traced THEN NoEvent ELSE NotTraced)

voice_default(rate) == voice_new(rate, FALSE)

\* note_on restarting the attack from silence instead of the live amplitude.
note_on_from_zero(n) ==
    /\ envelope_note_on(Zero)
    /\ note' = n
    /\ t_on' = time
    /\ t_off' = Never
    /\ UNCHANGED <<params_vars, sample_rate, time, out_alpha, out_pitch>>

\* MonoReplicant::note_on
note_on(n) ==
    /\ envelope_note_on(alpha)
    /\ note' = n
    /\ t_on' = time
    /\ t_off' = Never
    /\ UNCHANGED <<params_vars, sample_rate, time, out_alpha, out_pitch>>

\* note_off releasing the voice only when the event names the sounding note.
note_off_matching(n) ==
    IF n = note
    THEN /\ envelope_note_off
         /\ t_off' = (IF t_on = Never THEN Never ELSE time)
         /\ UNCHANGED <<params_vars, sample_rate, time, note, out_alpha,
                        out_pitch, t_on>>
    ELSE UNCHANGED voice_vars

\* MonoReplicant::note_off
note_off(n) ==
    /\ envelope_note_off
    /\ t_off' = (IF t_on = Never THEN Never ELSE time)
    /\ UNCHANGED <<params_vars, sample_rate, time, note, out_alpha, out_pitch, t_on>>

\* process_midi_event taking every status other than note-on for a note-off.
process_midi_event_other_off(data) ==
    /\ CASE data[1] = NOTE_ON -> note_on(data[2])
         [] OTHER             -> note_off(data[2])
    /\ last_event' = (IF last_event = NotTraced THEN NotTraced ELSE data)

\* MonoReplicant::process_midi_event; data[1] is the status byte (data[0] in
\* the source), data[2] the note number.
process_midi_event(data) ==
    /\ CASE data[1] = NOTE_OFF -> note_off(data[2])
         [] data[1] = NOTE_ON  -> note_on(data[2])
         [] OTHER              -> UNCHANGED voice_vars
    /\ last_event' = (IF last_event = NotTraced THEN NotTraced ELSE data)

\* Plugin::set_sample_rate
set_sample_rate(rate) ==
    /\ sample_rate' = rate
    /\ UNCHANGED <<envelope_vars, params_vars, time, note, out_alpha, out_pitch,
                   history_vars>>

\* produce_sample with the amplitude read after the envelope has advanced.
produce_sample_read_after ==
    LET n == inc_timer_of(current_phase, phase_elapsed, time_per_sample,
                          attack, decay)
    IN  /\ out_pitch' = midi_pitch_to_freq(note)
        /\ out_alpha' = alpha_of(n.phase, n.elapsed, note_on_volume,
                                 note_off_volume, attack, decay, sustain,
                                 release)
        /\ time' = RAdd(time, time_per_sample)
        /\ inc_timer(time_per_sample)
        /\ UNCHANGED <<params_vars, sample_rate, note, history_vars>>

\* One iteration of the sample loop of Plugin::process: the pitch of the
\* current note, the amplitude read, then the clock and the envelope advanced
\* by one sample period.
produce_sample ==
    /\ out_pitch' = midi_pitch_to_freq(note)
    /\ out_alpha' = alpha
    /\ time' = RAdd(time, time_per_sample)
    /\ inc_timer(time_per_sample)
    /\ UNCHANGED <<params_vars, sample_rate, note, history_vars>>

---------------------------------------------------------------------------
(* Spec: the voice with fixed parameters, driven by the host.              *)

\* The host stops asking for samples once the clock has reached MaxTime half
\* seconds.
MaxTime == 4

Durations == {R(1, 2), One, R(3, 2)}
SustainLevels == {Zero, R(1, 2), One}
SampleRates == {One, R(2, 1)}
Notes == {A4_PITCH}
Statuses == {NOTE_OFF, NOTE_ON, 176}
MidiEvents == {<<st, n, 64>> : st \in Statuses, n \in Notes}

Init ==
    /\ \E a \in Durations, d \in Durations, s \in SustainLevels, r \in Durations :
          envelope_new(a, d, s, r)
    /\ \E rate \in SampleRates : voice_default(rate)

Sample == RLt(time, R(MaxTime, 2)) /\ produce_sample

MidiEvent == \E data \in MidiEvents : process_midi_event(data)

SetSampleRate == \E rate \in SampleRates : set_sample_rate(rate)

Next == Sample \/ MidiEvent \/ SetSampleRate

Spec == Init /\ [][Next]_vars

---------------------------------------------------------------------------
(* SpecScenario: the end-to-end scenario.  Sample rate 1000 Hz, attack =   *)
(* decay = release = 0.01 s, sustain = 0.5; the host plays one note (at    *)
(* most one note-on, then at most one note-off).                           *)

ScenarioSamples == 40

ScenarioRate == R(1000, 1)
ScenarioDuration == R(1, 100)
ScenarioSustain == R(1, 2)

InitScenario ==
    /\ envelope_new(ScenarioDuration, ScenarioDuration, ScenarioSustain,
                    ScenarioDuration)
    /\ voice_default(ScenarioRate)

HostPlaysOneNote(data) ==
    /\ data[1] = NOTE_ON => t_on = Never
    /\ data[1] = NOTE_OFF => t_on # Never /\ t_off = Never

ScenarioSample ==
    /\ RLt(time, RDiv(R(ScenarioSamples, 1), ScenarioRate))
    /\ produce_sample

ScenarioEvent ==
    \E data \in MidiEvents : HostPlaysOneNote(data) /\ process_midi_event(data)

NextScenario == ScenarioSample \/ ScenarioEvent

SpecScenario == InitScenario /\ [][NextScenario]_vars

---------------------------------------------------------------------------
(* SpecParams: as Spec, with another thread writing the parameter cells    *)
(* between the audio thread's operations.                                  *)

ParamDurations == {R(1, 2), One}
ParamSustains == {R(1, 2), One}

InitParams ==
    /\ \E a \in ParamDurations, s \in ParamSustains : envelope_new(a, One, s, One)
    /\ voice_default(R(2, 1))

ParamChange ==
    \/ \E v \in ParamDurations : params_set("attack", v)
    \/ \E v \in ParamDurations : params_set("decay", v)
    \/ \E v \in ParamSustains : params_set("sustain", v)
    \/ \E v \in ParamDurations : params_set("release", v)

NextParams == Sample \/ MidiEvent \/ ParamChange

SpecParams == InitParams /\ [][NextParams]_vars

---------------------------------------------------------------------------
(* SpecPitch: the pitch mapping over every MIDI note.  The voice as        *)
(* constructed (default parameters and sample rate) receives one note-on   *)
(* for any note 0..127 and produces samples.                               *)

PitchSamples == 2

DefaultDuration == R(5, 10000)

InitDefault ==
    /\ envelope_new(DefaultDuration, DefaultDuration, One, DefaultDuration)
    /\ voice_default(R(DEFAULT_SAMPLE_RATE, 1))

PitchNoteOn ==
    \E n \in 0..MIDI_MAX : t_on = Never /\ process_midi_event(<<NOTE_ON, n, 64>>)

PitchSample ==
    /\ RLt(time, RDiv(R(PitchSamples, 1), sample_rate))
    /\ produce_sample

NextPitch == PitchNoteOn \/ PitchSample

SpecPitch == InitDefault /\ [][NextPitch]_vars

---------------------------------------------------------------------------
(* SpecNotes: two keys played in any order on one voice, with the history  *)
(* keeping the events delivered.                                           *)

NotesTime == 5

NoteNumbers == {A4_PITCH, A4_PITCH + 12}
NotesEvents == {<<st, n, 64>> : st \in Statuses, n \in NoteNumbers}

InitNotes ==
    /\ envelope_new(One, R(1, 2), R(1, 2), One)
    /\ voice_new(R(2, 1), TRUE)

NotesSample == RLt(time, R(NotesTime, 2)) /\ produce_sample

NotesEvent == \E data \in NotesEvents : process_midi_event(data)

NextNotes == NotesSample \/ NotesEvent

SpecNotes == InitNotes /\ [][NextNotes]_vars

---------------------------------------------------------------------------
(* SpecLive: the host delivers note events for a while and keeps asking    *)
(* for samples, at a sample rate fixed at the start.                       *)

LiveTime == 10

LiveDurations == {R(1, 2), One}

\* Time enough for the envelope to run through attack, decay and release.
Settle ==
    RAdd(RAdd(attack, decay), RAdd(release, RMul(R(2, 1), time_per_sample)))

InitLive ==
    /\ \E a \in LiveDurations, d \in LiveDurations, s \in SustainLevels,
          r \in LiveDurations : envelope_new(a, d, s, r)
    /\ \E rate \in SampleRates : voice_default(rate)

\* The host asks for samples throughout.
LiveSample == RLt(time, R(LiveTime, 2)) /\ produce_sample

\* The host delivers its last note event early enough for the envelope to
\* settle while samples are still being asked for.
LiveEvent ==
    /\ RLe(RAdd(time, Settle), R(LiveTime, 2))
    /\ \E data \in MidiEvents : process_midi_event(data)

NextLive == LiveSample \/ LiveEvent

SpecLive == InitLive /\ [][NextLive]_vars /\ WF_vars(LiveSample)

---------------------------------------------------------------------------
(* The properties checked.                                                 *)

InUnit(x) == RLe(Zero, x) /\ RLe(x, One)

\* A note is held: a note-on has been handled and no note-off since.
Held == t_on # Never /\ t_off = Never

\* The time advanced since the last note-on.
HeldTime == RSub(time, t_on)

\* C1: with fixed parameters, after any sequence of note-on and note-off
\* events, sample-rate changes and produced samples, the current amplitude is
\* within [0, 1].
C1_AmplitudeBounds == InUnit(alpha)

\* C1 witness: mid-decay, the amplitude strictly between sustain and 1.
C1_Witness ==
    /\ current_phase = "Decay"
    /\ RLt(Zero, phase_elapsed)
    /\ RLt(sustain, alpha)
    /\ RLt(alpha, One)

\* C2: a note-on leaves the current amplitude exactly as it was just before
\* the event, in every phase.
C2_NoteOnContinuity == [][(\E n \in Notes : note_on(n)) => alpha' = alpha]_vars

\* C2 witness: a retrigger while the envelope is audible below full volume.
C2_Witness ==
    /\ current_phase = "Attack"
    /\ phase_elapsed = Zero
    /\ RLt(Zero, note_on_volume)
    /\ RLt(note_on_volume, One)
    /\ alpha = note_on_volume

\* C3: a note-off leaves the current amplitude exactly as it was just before
\* the event, in every phase.
C3_NoteOffContinuity == [][(\E n \in Notes : note_off(n)) => alpha' = alpha]_vars

\* C3 witness: a release that starts from a captured amplitude strictly
\* between 0 and 1.
C3_Witness ==
    /\ current_phase = "Release"
    /\ phase_elapsed = Zero
    /\ t_off = time
    /\ RLt(Zero, note_off_volume)
    /\ RLt(note_off_volume, One)
    /\ alpha = note_off_volume

\* The case of C4: a note-on from silence, then two samples of half the attack
\* duration each (the amplitude read at the second one is 1/2).
C4_TwoHalfSteps ==
    /\ Held
    /\ note_on_volume = Zero
    /\ HeldTime = attack
    /\ RMul(R(2, 1), time_per_sample) = attack
    /\ out_alpha = R(1, 2)

\* C4 as claimed: after a note-on from silence and two advances of half the
\* attack duration each, the phase is Decay.
C4_Original == C4_TwoHalfSteps => current_phase = "Decay"

\* C4 as amended: while a note is held, the phase is Attack with phase_elapsed
\* equal to the time advanced since the note-on as long as that time is at
\* most the attack duration (so still Attack when it is exactly the attack
\* duration), and the phase has left Attack for Decay or Sustain once that
\* time exceeds the attack duration.
C4_AttackUntilExceeded ==
    Held =>
        IF RLe(HeldTime, attack)
        THEN current_phase = "Attack" /\ phase_elapsed = HeldTime
        ELSE current_phase \in {"Decay", "Sustain"}

\* C4 witness: two half steps taken, the phase still Attack at full volume.
C4_Witness ==
    /\ C4_TwoHalfSteps
    /\ current_phase = "Attack"
    /\ phase_elapsed = attack
    /\ alpha = One

\* The scenario's time of k samples at 1000 Hz.
ScenarioTime(k) == RDiv(R(k, 1), ScenarioRate)

\* C5: in the scenario, 30 samples after a note-on from silence the envelope
\* is in Sustain with amplitude 1/2; after a note-off at that point and 10
\* more samples the phase is Release and the amplitude is 0.
C5_EndToEnd ==
    /\ (Held /\ note_on_volume = Zero /\ HeldTime = ScenarioTime(30))
         => (current_phase = "Sustain" /\ alpha = ScenarioSustain)
    /\ (/\ t_on # Never
        /\ t_off # Never
        /\ note_on_volume = Zero
        /\ RSub(t_off, t_on) = ScenarioTime(30)
        /\ RSub(time, t_off) = ScenarioTime(10))
         => (current_phase = "Release" /\ alpha = Zero)

\* C5 witness: the note held for 30 samples, released, and 10 more samples
\* produced.
C5_Witness ==
    /\ t_on # Never
    /\ t_off # Never
    /\ RSub(t_off, t_on) = ScenarioTime(30)
    /\ RSub(time, t_off) = ScenarioTime(10)
    /\ note_off_volume = ScenarioSustain
    /\ phase_elapsed = ScenarioDuration

\* C6: in Release with phase_elapsed at or beyond the release duration, the
\* amplitude is exactly 0.
C6_ReleaseFloor ==
    (current_phase = "Release" /\ RLe(release, phase_elapsed)) => alpha = Zero

\* C6 witness: a release from a positive captured volume that has run past
\* the release duration.
C6_Witness ==
    /\ current_phase = "Release"
    /\ t_off # Never
    /\ RLt(Zero, note_off_volume)
    /\ RLt(release, phase_elapsed)

\* C7: as long as no note-on has been handled, the current amplitude and the
\* amplitude read for every produced sample are 0, whatever samples were
\* produced and note-offs handled.
C7_SilentUntilNoteOn == t_on = Never => (alpha = Zero /\ out_alpha = Zero)

\* C7 witness: before any note-on, a note-off has been handled and samples
\* produced after it, the release not yet run out.
C7_Witness ==
    /\ t_on = Never
    /\ out_pitch # NoPitch
    /\ RLt(Zero, phase_elapsed)
    /\ RLt(phase_elapsed, release)

\* C8 as claimed: right after a produced sample (advance_time), phase_elapsed
\* is strictly less than the attack duration in Attack and strictly less than
\* the decay duration in Decay.
C8_Original ==
    [][produce_sample =>
         /\ (current_phase' = "Attack" => RLt(phase_elapsed', attack'))
         /\ (current_phase' = "Decay" => RLt(phase_elapsed', decay'))]_vars

\* C8 as amended: right after a produced sample, phase_elapsed is at most the
\* attack duration in Attack and at most the decay duration in Decay.
C8_ElapsedWithinPhase ==
    [][produce_sample =>
         /\ (current_phase' = "Attack" => RLe(phase_elapsed', attack'))
         /\ (current_phase' = "Decay" => RLe(phase_elapsed', decay'))]_vars

\* C8 witness: Decay entered by carry-over, with phase_elapsed advanced to
\* exactly the decay duration.
C8_Witness ==
    /\ current_phase = "Decay"
    /\ phase_elapsed = decay
    /\ Held
    /\ out_pitch # NoPitch

\* C9 as claimed: with another thread writing the parameter cells at any
\* point between the audio thread's operations, the amplitude read for every
\* sample is within [0, 1].
C9_Claim == InUnit(out_alpha)

\* C10: for every MIDI note 0..127 the i8 subtraction of the pitch mapping
\* does not overflow; note 69 maps to the exponent 0 and note 81 to the
\* exponent 1.
C10_PitchMapping ==
    out_pitch # NoPitch =>
        /\ ~out_pitch.overflow
        /\ out_pitch.pitch = A4_PITCH => out_pitch.exponent = Zero
        /\ out_pitch.pitch = A4_PITCH + 12 => out_pitch.exponent = One

\* C10 witness: a sample produced for note 81, one octave above A4.
C10_Witness ==
    /\ out_pitch # NoPitch
    /\ out_pitch.pitch = A4_PITCH + 12
    /\ out_pitch.exponent = One


\* phase_elapsed as advance_time first makes it: increased by one sample period.
Advanced == RAdd(phase_elapsed, time_per_sample)

\* Advanced after the Attack -> Decay carry-over.
Carried == RRem(Advanced, attack)

\* C11: one produced sample (one advance_time call) takes Attack to Attack,
\* Decay or Sustain and Decay to Decay or Sustain; when it leaves Attack, it
\* goes on to Sustain in the same call exactly when phase_elapsed as reduced
\* by the Attack -> Decay carry-over exceeds the decay duration.
C11_TransitionsPerCall ==
    [][produce_sample =>
         /\ current_phase = "Attack"
              => current_phase' \in {"Attack", "Decay", "Sustain"}
         /\ current_phase = "Decay" => current_phase' \in {"Decay", "Sustain"}
         /\ (current_phase = "Attack" /\ RLt(attack, Advanced))
              => /\ current_phase' \in {"Decay", "Sustain"}
                 /\ current_phase' = "Sustain" <=> RLt(decay, Carried)]_vars

\* C11 witness: the last amplitude was read at the very end of the attack
\* (1.0, above the sustain level) one sample period ago, and that one call
\* has taken the envelope through Decay into Sustain.
C11_Witness ==
    /\ Held
    /\ current_phase = "Sustain"
    /\ note_on_volume = Zero
    /\ RLt(sustain, One)
    /\ out_alpha = One
    /\ RSub(HeldTime, time_per_sample) = attack
    /\ phase_elapsed = RRem(RRem(RAdd(attack, time_per_sample), attack), decay)


\* A step of the voice that delivers a note-on, a note-off, or produces a sample.
IsNoteOn == \E n \in Notes : note_on(n)

IsNoteOff == \E n \in Notes : note_off(n)

\* C12: the phase changes only along the state machine: to Attack by note_on,
\* to Release by note_off, and by advance_time only from Attack (to Decay or
\* Sustain) and from Decay (to Sustain); advance_time leaves Sustain and
\* Release alone, and note_on and note_off never lead anywhere else.
C12_PhaseStateMachine ==
    [][/\ current_phase' = "Attack" /\ current_phase # "Attack" => IsNoteOn
       /\ current_phase' = "Release" /\ current_phase # "Release" => IsNoteOff
       /\ produce_sample /\ current_phase \in {"Sustain", "Release"}
            => current_phase' = current_phase
       /\ current_phase' # current_phase
            => \/ IsNoteOn /\ current_phase' = "Attack"
               \/ IsNoteOff /\ current_phase' = "Release"
               \/ /\ produce_sample
                  /\ current_phase = "Attack"
                  /\ current_phase' \in {"Decay", "Sustain"}
               \/ /\ produce_sample
                  /\ current_phase = "Decay"
                  /\ current_phase' = "Sustain"]_vars

\* C12 witness: a released note whose release time has run out (phase_elapsed
\* beyond both the release and the decay duration) is still in Release.
C12_Witness ==
    /\ current_phase = "Release"
    /\ t_off # Never
    /\ RLt(release, phase_elapsed)
    /\ RLt(decay, phase_elapsed)
    /\ out_pitch # NoPitch


\* C13: after one advance_time call, phase_elapsed is (old + dt) mod attack
\* when only Attack -> Decay was taken, the value at the Decay check mod decay
\* when Decay -> Sustain was taken (that value is old + dt from Decay and the
\* carried-over value from Attack), and old + dt when the phase did not
\* change.
C13_CarryOver ==
    [][produce_sample =>
         /\ current_phase = "Attack" /\ current_phase' = "Decay"
              => phase_elapsed' = Carried
         /\ current_phase = "Attack" /\ current_phase' = "Sustain"
              => phase_elapsed' = RRem(Carried, decay)
         /\ current_phase = "Decay" /\ current_phase' = "Sustain"
              => phase_elapsed' = RRem(Advanced, decay)
         /\ current_phase' = current_phase
              => phase_elapsed' = Advanced]_vars

\* C13 witness: a held note has entered Decay with a carry-over that is
\* neither zero nor a whole sample period.
C13_Witness ==
    /\ Held
    /\ current_phase = "Decay"
    /\ RLt(Zero, phase_elapsed)
    /\ RLt(phase_elapsed, time_per_sample)
    /\ HeldTime = RAdd(attack, phase_elapsed)


\* The durations of the phases a held note has already completed.
CompletedPhases ==
    CASE current_phase = "Decay" -> attack
      [] current_phase = "Sustain" -> RAdd(attack, decay)
      [] OTHER -> Zero

\* C14: while a note is held, the time advanced since its note_on equals
\* phase_elapsed plus the durations of the phases already completed.
C14_Claim == Held => HeldTime = RAdd(phase_elapsed, CompletedPhases)


\* The envelope timer states: a phase and the time elapsed in it.
TimerStates == [phase : {"Attack", "Decay", "Sustain", "Release"}, elapsed : Rat]

\* One advance_time(1/sample_rate) call on a timer state.
advance[p \in TimerStates] ==
    inc_timer_of(p.phase, p.elapsed, time_per_sample, attack, decay)

\* The timer state reached by exactly k advance_time(1/sample_rate) calls
\* after a note event that entered phase ph.
advanced_by[k \in Nat, ph \in {"Attack", "Release"}] ==
    IF k = 0 THEN [phase |-> ph, elapsed |-> Zero]
    ELSE advance[advanced_by[k - 1, ph]]

\* The amplitude of a timer state under the volumes of the current note.
amplitude_at[p \in TimerStates] ==
    alpha_of(p.phase, p.elapsed, note_on_volume, note_off_volume, attack,
             decay, sustain, release)

\* The number of sample periods between instant t and now.
SamplesSince(t) == RMul(RSub(time, t), sample_rate)[1]

\* C15 at the latest note event, which happened at instant t and entered
\* phase ph: the envelope is where k advance_time calls take it, k being the
\* number of samples produced since, and the latest sample, number k - 1,
\* carries the amplitude of the state reached by k - 1 calls.
SampleAfterAdvances(t, ph) ==
    /\ [phase |-> current_phase, elapsed |-> phase_elapsed]
         = advanced_by[SamplesSince(t), ph]
    /\ SamplesSince(t) > 0
         => out_alpha = amplitude_at[advanced_by[SamplesSince(t) - 1, ph]]

\* C15: each sample reads the amplitude before the envelope advances, and
\* clock and envelope advance once per sample by 1/sample_rate: sample k
\* after a note event carries the amplitude of the envelope state reached by
\* exactly k advance_time(1/sample_rate) calls after that event.
C15_SampleAfterAdvances ==
    /\ Held => SampleAfterAdvances(t_on, "Attack")
    /\ t_off # Never => SampleAfterAdvances(t_off, "Release")

\* C15 witness: fifteen samples into a held note the envelope is halfway
\* through Decay, and the latest sample carries the amplitude of the state
\* after fourteen advances, 1 - 0.5 * 0.4.
C15_Witness ==
    /\ Held
    /\ HeldTime = ScenarioTime(15)
    /\ current_phase = "Decay"
    /\ phase_elapsed = ScenarioTime(5)
    /\ out_alpha = R(4, 5)


\* C16: a MIDI event whose status is neither note-on (144) nor note-off (128)
\* changes nothing of the envelope (phase, phase_elapsed, note_on_volume,
\* note_off_volume), nor the current note, the time or the sample rate.
C16_OtherStatusIgnored ==
    [][\A data \in NotesEvents :
         data[1] \notin {NOTE_ON, NOTE_OFF} /\ process_midi_event(data)
           => UNCHANGED <<envelope_vars, note, time, sample_rate>>]_vars

\* C16 witness: an event of another status has just been delivered during
\* the decay of a sounding note, which is still decaying.
C16_Witness ==
    /\ last_event \in NotesEvents
    /\ last_event[1] \notin {NOTE_ON, NOTE_OFF}
    /\ Held
    /\ current_phase = "Decay"
    /\ RLt(Zero, phase_elapsed)
    /\ note = A4_PITCH + 12


\* C17: a note-off event puts the envelope in Release with phase_elapsed = 0
\* whatever its note number, the sounding note or not, and leaves the current
\* note as it was; a note-on event makes its note number the current note,
\* whatever the phase.
C17_NoteEvents ==
    [][\A data \in NotesEvents :
         process_midi_event(data) =>
           /\ data[1] = NOTE_OFF
                => /\ current_phase' = "Release"
                   /\ phase_elapsed' = Zero
                   /\ note' = note
           /\ data[1] = NOTE_ON => note' = data[2]]_vars

\* C17 witness: with the upper key sounding (its note-on came last), the
\* note-off of the lower key has just released the voice, which still has the
\* upper key as its note.
C17_Witness ==
    /\ last_event = <<NOTE_OFF, A4_PITCH, 64>>
    /\ note = A4_PITCH + 12
    /\ current_phase = "Release"
    /\ phase_elapsed = Zero
    /\ t_off = time
    /\ RLt(Zero, note_off_volume)


\* C18: a held note that gets no further note event while samples keep being
\* produced reaches Sustain, and a sample produced in Sustain leaves the
\* envelope in Sustain with the amplitude at the sustain level.
C18_HeldReachesSustain ==
    /\ Held ~> (current_phase = "Sustain" \/ ~Held)
    /\ [][produce_sample /\ current_phase = "Sustain"
            => /\ current_phase' = "Sustain"
               /\ out_alpha' = sustain
               /\ alpha' = sustain]_vars

\* C18 witness: a held note has been in Sustain for more than two sample
\* periods, sounding at a sustain level below the attack's peak.
C18_Witness ==
    /\ Held
    /\ current_phase = "Sustain"
    /\ RLt(RMul(R(2, 1), time_per_sample), phase_elapsed)
    /\ RLt(sustain, One)
    /\ out_alpha = sustain


\* A note has been released and not played again.
Released == t_off # Never /\ current_phase = "Release"

\* C19: after a note-off, with no note-on and samples still being produced,
\* the amplitude does not increase from one sample to the next, reaches 0.0,
\* and once at 0.0 stays there for as long as the phase is Release, that is
\* until the next note-on.
C19_ReleaseDiesAway ==
    /\ Released ~> (alpha = Zero \/ current_phase # "Release")
    /\ [][produce_sample /\ Released
            => /\ out_alpha' = alpha
               /\ RLe(alpha', alpha)]_vars
    /\ [][Released /\ alpha = Zero /\ current_phase' = "Release"
            => alpha' = Zero]_vars

\* C19 witness: a note released at a positive amplitude has died away to 0.0
\* and the last sample was written at 0.0.
C19_Witness ==
    /\ Released
    /\ RLt(Zero, note_off_volume)
    /\ RLt(release, phase_elapsed)
    /\ alpha = Zero
    /\ out_alpha = Zero

=============================================================================
